---- MODULE Spec2Model ----
(* Model of the ping-pong checker: one invocation of main() (src/main.py)  *)
(* fetches the Ping events and the candidate's Pong events through         *)
(* Contract (src/contract.py) and then runs the four checks, logging one   *)
(* finding per check.  The same invocation is then repeated once over the  *)
(* same chain contents, so that two runs can be compared.                  *)
(*                                                                         *)
(* Hashes are small integers, addresses are sequences of one-character     *)
(* strings.  The informational lines of main.py:83 and main.py:92 carry no *)
(* finding and are not modelled.                                           *)
EXTENDS Integers, Sequences, FiniteSets, TLC

VARIABLES
    chain_pings,   \* entries of the Ping log filter: sequence of tx hashes
    chain_pongs,   \* entries of the Pong log filter, each joined with its tx
    address,       \* candidate_bot
    pc,            \* position of the run
    run,           \* 1 = first invocation, 2 = second invocation
    all_pings,     \* main.py:89
    pongs_events,  \* contract.py:171
    idx,           \* position of the loop of contract.py:173
    pongs,         \* contract.py:172
    all_pongs,     \* main.py:89
    todo,          \* hashes the loop of main.py:120 has not visited yet
    count_of_invalid_pongs,
    findings,      \* what this run logged, in order
    prev_findings  \* what the first run logged

vars == <<chain_pings, chain_pongs, address, pc, run, all_pings, pongs_events,
          idx, pongs, all_pongs, todo, count_of_invalid_pongs, findings,
          prev_findings>>

-----------------------------------------------------------------------------
(* Bounds *)

NumHashes == 3
MaxPings == 3
MaxPongs == 2
MaxEntries == 2
AddrLen == 1

Hashes == 1..NumHashes

SeqsUpTo(S, n) == UNION {[1..k -> S] : k \in 0..n}

Range(s) == {s[i] : i \in DOMAIN s}

-----------------------------------------------------------------------------
(* Addresses and str.lower() *)

Chars == {"a", "A", "b"}

LowerChar(c) == CASE c = "A" -> "a" [] c = "B" -> "b" [] OTHER -> c

Lower(s) == [i \in DOMAIN s |-> LowerChar(s[i])]

Addresses == UNION {[1..k -> Chars] : k \in 1..AddrLen}

\* tx.get("from", "")
TxFrom(ev) == IF ev.has_from THEN ev.from ELSE <<>>

\* the comparison without .lower()
SenderMatchesRaw(ev, addr) == TxFrom(ev) = addr

SenderMatches(ev, addr) == Lower(TxFrom(ev)) = Lower(addr)

CandidateBot == <<"A", "b">>
BotSenders == {<<"a", "B">>, <<"b", "b">>}

PongEntries(H, S, withAbsent) ==
    {[txHash |-> h, has_from |-> TRUE, from |-> s] : h \in H, s \in S}
    \cup (IF withAbsent
          THEN {[txHash |-> h, has_from |-> FALSE, from |-> <<>>] : h \in H}
          ELSE {})

-----------------------------------------------------------------------------
(* Findings *)

CountMismatch == [kind |-> "CountMismatch", level |-> "error"]
DuplicatePong(raw, unique) ==
    [kind |-> "DuplicatePong", level |-> "error", raw |-> raw, unique |-> unique]
NoDuplicates == [kind |-> "NoDuplicates", level |-> "info"]
OrphanPong(h) == [kind |-> "OrphanPong", level |-> "error", hash |-> h]
AllPongsValid == [kind |-> "AllPongsValid", level |-> "info"]
MissingPongs(p, m) ==
    [kind |-> "MissingPongs", level |-> "error", percentage |-> p, missing |-> m]

\* f"{(1 - d / n) * 100:.2f}", in hundredths of a percent
Percentage(d, n) == ((n - d) * 20000 + n) \div (2 * n)

pings_hash_in_pongs_of(ps) == [i \in DOMAIN ps |-> ps[i].txHash]

-----------------------------------------------------------------------------
(* Initial states *)

InitRun ==
    /\ pc = "start"
    /\ run = 1
    /\ all_pings = <<>>
    /\ pongs_events = <<>>
    /\ idx = 1
    /\ pongs = <<>>
    /\ all_pongs = <<>>
    /\ todo = {}
    /\ count_of_invalid_pongs = 0
    /\ findings = <<>>
    /\ prev_findings = <<>>

\* Reconciliation: every ping and pong sequence, one candidate address whose
\* pongs come from the candidate (in another case) or from somebody else.
Init ==
    /\ address = CandidateBot
    /\ chain_pings \in SeqsUpTo(Hashes, MaxPings)
    /\ chain_pongs \in SeqsUpTo(PongEntries(Hashes, BotSenders, FALSE), MaxPongs)
    /\ InitRun

\* Sender filter: every candidate address and every sender, present or not.
\* The candidate address is never empty: main.py:145 opens "logs/<address>"
\* before main() runs, which fails for an empty name.
InitFetch ==
    /\ address \in Addresses
    /\ chain_pings \in SeqsUpTo({1}, 1)
    /\ chain_pongs \in SeqsUpTo(PongEntries({1}, Addresses, TRUE), MaxEntries)
    /\ InitRun

-----------------------------------------------------------------------------
(* Contract.get_all_pings, Contract.get_all_pongs *)

chain == <<chain_pings, chain_pongs, address>>

\* an exception that is swallowed: the run goes on with what it has
FailSwallowed ==
    /\ pc' = "count_check"
    /\ UNCHANGED <<chain, run, all_pings, pongs_events, idx, pongs, all_pongs,
                   todo, count_of_invalid_pongs, findings, prev_findings>>

\* No try/except anywhere: an exception of a fetch ends the run.
Fail ==
    /\ pc' = "failed"
    /\ UNCHANGED <<chain, run, all_pings, pongs_events, idx, pongs, all_pongs,
                   todo, count_of_invalid_pongs, findings, prev_findings>>

GetAllPings ==
    /\ pc = "start"
    /\ all_pings' = chain_pings
    /\ pc' = "pongs_filter"
    /\ UNCHANGED <<chain, run, pongs_events, idx, pongs, all_pongs, todo,
                   count_of_invalid_pongs, findings, prev_findings>>

GetAllPingsFails ==
    /\ pc = "start"
    /\ Fail

PongsFilter ==
    /\ pc = "pongs_filter"
    /\ pongs_events' = chain_pongs
    /\ pongs' = <<>>
    /\ idx' = 1
    /\ pc' = "pongs_loop"
    /\ UNCHANGED <<chain, run, all_pings, all_pongs, todo,
                   count_of_invalid_pongs, findings, prev_findings>>

PongsFilterFails ==
    /\ pc = "pongs_filter"
    /\ Fail

PongsLoop ==
    /\ pc = "pongs_loop"
    /\ idx <= Len(pongs_events)
    /\ pongs' = IF SenderMatches(pongs_events[idx], address)
                THEN Append(pongs, pongs_events[idx])
                ELSE pongs
    /\ idx' = idx + 1
    /\ UNCHANGED <<chain, pc, run, all_pings, pongs_events, all_pongs, todo,
                   count_of_invalid_pongs, findings, prev_findings>>

GetTransactionFails ==
    /\ pc = "pongs_loop"
    /\ idx <= Len(pongs_events)
    /\ Fail

PongsReturn ==
    /\ pc = "pongs_loop"
    /\ idx > Len(pongs_events)
    /\ all_pongs' = pongs
    /\ pc' = "count_check"
    /\ UNCHANGED <<chain, run, all_pings, pongs_events, idx, pongs, todo,
                   count_of_invalid_pongs, findings, prev_findings>>

-----------------------------------------------------------------------------
(* main: the four checks *)

fetched == <<chain, run, all_pings, pongs_events, idx, pongs, all_pongs,
             prev_findings>>

\* the test inverted
CountDiffersInverted(npongs, npings) == npongs = npings

CountDiffers(npongs, npings) == npongs # npings

CountCheck ==
    /\ pc = "count_check"
    /\ findings' = IF CountDiffers(Len(all_pongs), Len(all_pings))
                   THEN Append(findings, CountMismatch)
                   ELSE findings
    /\ pc' = "duplicate_check"
    /\ UNCHANGED <<fetched, todo, count_of_invalid_pongs>>

\* off by one
HasDuplicatesOffByOne(hs) == Cardinality(Range(hs)) + 1 < Len(hs)

HasDuplicates(hs) == Cardinality(Range(hs)) # Len(hs)

DuplicateCheck ==
    /\ pc = "duplicate_check"
    /\ LET hs == pings_hash_in_pongs_of(all_pongs) IN
       findings' = IF HasDuplicates(hs)
                   THEN Append(findings,
                               DuplicatePong(Len(hs), Cardinality(Range(hs))))
                   ELSE Append(findings, NoDuplicates)
    /\ todo' = Range(pings_hash_in_pongs_of(all_pongs))
    /\ count_of_invalid_pongs' = 0
    /\ pc' = "orphan_loop"
    /\ UNCHANGED fetched

\* "in" for "not in"
IsOrphanInverted(h, ping_txs) == h \in Range(ping_txs)

IsOrphan(h, ping_txs) == h \notin Range(ping_txs)

\* Iteration over a Python set: the order of the visits is not determined
\* by the contents.
OrphanLoop ==
    /\ pc = "orphan_loop"
    /\ \E h \in todo :
         /\ todo' = todo \ {h}
         /\ IF IsOrphan(h, all_pings)
            THEN /\ findings' = Append(findings, OrphanPong(h))
                 /\ count_of_invalid_pongs' = count_of_invalid_pongs + 1
            ELSE UNCHANGED <<findings, count_of_invalid_pongs>>
    /\ UNCHANGED <<fetched, pc>>

OrphanEnd ==
    /\ pc = "orphan_loop"
    /\ todo = {}
    /\ findings' = IF count_of_invalid_pongs = 0
                   THEN Append(findings, AllPongsValid)
                   ELSE findings
    /\ pc' = "missing_check"
    /\ UNCHANGED <<fetched, todo, count_of_invalid_pongs>>

HasMissing(hashes, ping_txs) == Cardinality(hashes) < Len(ping_txs)

MissingCheck ==
    /\ pc = "missing_check"
    /\ LET hashes == Range(pings_hash_in_pongs_of(all_pongs))
           ping_txs == all_pings
           missing_pings == SelectSeq(ping_txs, LAMBDA p : p \notin hashes)
       IN findings' =
            IF HasMissing(hashes, ping_txs)
            THEN Append(findings,
                        MissingPongs(Percentage(Cardinality(hashes),
                                                Len(ping_txs)),
                                     missing_pings))
            ELSE findings
    /\ pc' = "done"
    /\ UNCHANGED <<fetched, todo, count_of_invalid_pongs>>

\* A second invocation over the same chain contents.
Rerun ==
    /\ pc = "done"
    /\ run = 1
    /\ run' = 2
    /\ prev_findings' = findings
    /\ pc' = "start"
    /\ all_pings' = <<>>
    /\ pongs_events' = <<>>
    /\ idx' = 1
    /\ pongs' = <<>>
    /\ all_pongs' = <<>>
    /\ todo' = {}
    /\ count_of_invalid_pongs' = 0
    /\ findings' = <<>>
    /\ UNCHANGED chain

Next ==
    \/ GetAllPings
    \/ GetAllPingsFails
    \/ PongsFilter
    \/ PongsFilterFails
    \/ PongsLoop
    \/ GetTransactionFails
    \/ PongsReturn
    \/ CountCheck
    \/ DuplicateCheck
    \/ OrphanLoop
    \/ OrphanEnd
    \/ MissingCheck
    \/ Rerun

Spec == Init /\ [][Next]_vars

SpecFetch == InitFetch /\ [][Next]_vars

-----------------------------------------------------------------------------
(* Properties *)

Emitted(k) == {i \in DOMAIN findings : findings[i].kind = k}

Has(k) == Emitted(k) # {}

PingSet == Range(all_pings)

PongRefs == {all_pongs[j].txHash : j \in DOMAIN all_pongs}

Unreferenced == PingSet \ PongRefs

Orphans == PongRefs \ PingSet

PongsOf(h) == {j \in DOMAIN all_pongs : all_pongs[j].txHash = h}

AfterCount == pc \in {"duplicate_check", "orphan_loop", "missing_check", "done"}
AfterDuplicate == pc \in {"orphan_loop", "missing_check", "done"}
AfterOrphan == pc \in {"missing_check", "done"}
AfterFetch == pc \in {"count_check"} \/ AfterCount

\* the hundredth of a percent closest to (1 - covered/total) * 100
Rounded(covered, total) ==
    CHOOSE p \in 0..10000 :
        /\ 2 * (p * total - (total - covered) * 10000) <= total
        /\ 2 * ((total - covered) * 10000 - p * total) <= total

\* C1: when some ping hash is referenced by no pong, the finished run has
\* emitted MissingPongs and its list holds exactly the unreferenced ping hashes.
C1_MissingReported ==
    (pc = "done" /\ Unreferenced # {}) =>
        \E i \in Emitted("MissingPongs") :
            Range(findings[i].missing) = Unreferenced

\* C2: the percentage of every MissingPongs finding is
\* (1 - covered/total) * 100 to two decimals, over the distinct ping hashes,
\* an orphan hash not counting as covered.
C2_PercentageOverDistinctPings ==
    \A i \in Emitted("MissingPongs") :
        findings[i].percentage =
            Rounded(Cardinality(PingSet \cap PongRefs), Cardinality(PingSet))

\* C3: once the orphan check is over there is exactly one OrphanPong(h) for
\* every hash h some pong references and no ping has, none for any other
\* hash, and AllPongsValid is emitted exactly when no OrphanPong is.
C3_OrphanCheck ==
    AfterOrphan =>
        /\ \A h \in Hashes :
             Cardinality({i \in Emitted("OrphanPong") : findings[i].hash = h})
                = IF h \in Orphans THEN 1 ELSE 0
        /\ \A i \in Emitted("OrphanPong") : findings[i].level = "error"
        /\ Has("AllPongsValid") <=> ~Has("OrphanPong")
        /\ Cardinality(Emitted("AllPongsValid")) <= 1

C3_Witness ==
    /\ pc = "done"
    /\ Len(all_pongs) = 2
    /\ all_pongs[1].txHash = all_pongs[2].txHash
    /\ all_pongs[1].txHash \in Orphans
    /\ all_pings # <<>>
    /\ Cardinality(Emitted("OrphanPong")) = 1

\* C4: the duplicate check emits exactly one of DuplicatePong and
\* NoDuplicates: DuplicatePong exactly when two pongs carry the same
\* ping_tx_hash, with raw = |pongs| and unique = the number of distinct
\* ping_tx_hash values (|pongs| - 1 when one hash is referenced exactly twice).
C4_DuplicateCheck ==
    AfterDuplicate =>
        /\ Cardinality(Emitted("DuplicatePong") \cup Emitted("NoDuplicates")) = 1
        /\ Has("DuplicatePong") <=>
             \E j, k \in DOMAIN all_pongs :
                 j # k /\ all_pongs[j].txHash = all_pongs[k].txHash
        /\ \A i \in Emitted("DuplicatePong") :
             /\ findings[i].raw = Len(all_pongs)
             /\ \E U \in SUBSET Hashes :
                  /\ U = PongRefs
                  /\ findings[i].unique = Cardinality(U)
             /\ (\E h \in PongRefs :
                   /\ Cardinality(PongsOf(h)) = 2
                   /\ \A g \in PongRefs \ {h} : Cardinality(PongsOf(g)) = 1)
                => findings[i].unique = Len(all_pongs) - 1

C4_Witness ==
    /\ pc = "done"
    /\ Len(all_pongs) = 2
    /\ all_pongs[1].txHash = all_pongs[2].txHash
    /\ \E i \in Emitted("DuplicatePong") :
         findings[i].raw = 2 /\ findings[i].unique = 1

\* C5: pairwise distinct pings, pairwise distinct pongs and equal hash sets
\* give NoDuplicates and AllPongsValid and nothing else, in any order of the
\* two sequences.
C5_CleanInputCleanReport ==
    (/\ pc = "done"
     /\ Cardinality(PingSet) = Len(all_pings)
     /\ Cardinality(PongRefs) = Len(all_pongs)
     /\ PongRefs = PingSet)
    => /\ Has("NoDuplicates")
       /\ Has("AllPongsValid")
       /\ \A i \in DOMAIN findings :
            findings[i].kind \in {"NoDuplicates", "AllPongsValid"}

C5_Witness ==
    /\ pc = "done"
    /\ Len(all_pings) = 2
    /\ Len(all_pongs) = 2
    /\ all_pings[1] # all_pings[2]
    /\ all_pongs[1].txHash = all_pings[2]
    /\ all_pongs[2].txHash = all_pings[1]
    /\ findings = <<NoDuplicates, AllPongsValid>>

\* C6: CountMismatch is emitted, at error level, exactly when the number of
\* pong events differs from the number of ping events; a duplicate pong that
\* offsets a missing one gives DuplicatePong and MissingPongs without it.
C6_CountMismatch ==
    /\ AfterCount =>
         /\ Has("CountMismatch") <=> Len(all_pongs) # Len(all_pings)
         /\ Cardinality(Emitted("CountMismatch")) <= 1
         /\ \A i \in Emitted("CountMismatch") : findings[i].level = "error"
    /\ (/\ pc = "done"
        /\ Len(all_pongs) = Len(all_pings)
        /\ Cardinality(PongRefs) < Len(all_pongs))
       => /\ ~Has("CountMismatch")
          /\ Has("DuplicatePong")
          /\ Has("MissingPongs")

C6_Witness ==
    /\ pc = "done"
    /\ Len(all_pings) = 2
    /\ all_pings[1] # all_pings[2]
    /\ Len(all_pongs) = 2
    /\ all_pongs[1].txHash = all_pings[1]
    /\ all_pongs[2].txHash = all_pings[1]
    /\ ~Has("CountMismatch")
    /\ Has("DuplicatePong")
    /\ Has("MissingPongs")

\* C7: the second run over the same two sequences ends with the findings of
\* the first, payloads and order included.
C7_SameFindingsTwice ==
    (run = 2 /\ pc = "done") => findings = prev_findings

SameLetter(c, d) == c = d \/ {c, d} = {"a", "A"} \/ {c, d} = {"b", "B"}

EqualIgnoringCase(s, t) ==
    /\ Len(s) = Len(t)
    /\ \A i \in DOMAIN s : SameLetter(s[i], t[i])

FromCandidate(ev) == ev.has_from /\ EqualIgnoringCase(ev.from, address)

\* C8: get_all_pongs returns exactly the entries of the Pong filter whose
\* transaction's sender is the candidate address up to case, in the filter's
\* order and once each; an entry with another sender or none is left out.
C8_PongsOfCandidateOnly ==
    /\ pc = "pongs_loop" =>
         pongs = SelectSeq(SubSeq(chain_pongs, 1, idx - 1), FromCandidate)
    /\ AfterFetch =>
         all_pongs = SelectSeq(chain_pongs, FromCandidate)

C8_Witness ==
    /\ pc = "done"
    /\ Len(chain_pongs) = 2
    /\ chain_pongs[1].has_from
    /\ chain_pongs[1].from # address
    /\ ~chain_pongs[2].has_from
    /\ all_pongs = <<chain_pongs[1]>>

\* C9: a run that failed in a fetch has emitted no finding; findings appear
\* only after both event sets are fetched completely, and from then on a
\* check is always able to run until the run is done, whatever the findings.
C9_FailureEmitsNothing ==
    /\ pc = "failed" => findings = <<>>
    /\ findings # <<>> =>
         /\ all_pings = chain_pings
         /\ pongs_events = chain_pongs
         /\ idx = Len(chain_pongs) + 1
         /\ pc # "failed"
    /\ (AfterFetch /\ pc # "done") =>
         ENABLED (CountCheck \/ DuplicateCheck \/ OrphanLoop \/ OrphanEnd
                  \/ MissingCheck)
    /\ pc = "done" =>
         /\ Has("DuplicatePong") \/ Has("NoDuplicates")
         /\ all_pings = chain_pings
         /\ idx = Len(chain_pongs) + 1

C9_Witness ==
    /\ pc = "failed"
    /\ all_pings = chain_pings
    /\ Len(pongs_events) = 2
    /\ idx = 2
    /\ findings = <<>>

\* C10: a run that emitted NoDuplicates and AllPongsValid and neither
\* CountMismatch nor MissingPongs had every ping hash referenced by exactly
\* one pong and every pong referencing a ping hash.
C10_CleanReportSound ==
    (/\ pc = "done"
     /\ Has("NoDuplicates")
     /\ Has("AllPongsValid")
     /\ ~Has("CountMismatch")
     /\ ~Has("MissingPongs"))
    => /\ \A p \in DOMAIN all_pings : Cardinality(PongsOf(all_pings[p])) = 1
       /\ \A j \in DOMAIN all_pongs : all_pongs[j].txHash \in PingSet
       /\ Cardinality(PingSet) = Len(all_pings)
       /\ Len(all_pongs) = Len(all_pings)

C10_Witness ==
    /\ pc = "done"
    /\ Len(all_pings) = 2
    /\ Has("NoDuplicates")
    /\ Has("AllPongsValid")
    /\ ~Has("CountMismatch")
    /\ ~Has("MissingPongs")

====
